---- MODULE Spec2Model ----
(***************************************************************************)
(* Model of the two security gates of DesktopCommanderMCP:                 *)
(*   - the path sandbox of src/tools/filesystem.ts (allowedDirectories,    *)
(*     loadAllowedDirectories, validatePath), and                          *)
(*   - the command gate of src/command-manager.ts (CommandManager).        *)
(*                                                                         *)
(* A string is a sequence of symbols.  A symbol is one character, or one   *)
(* literal word of the source that no operation of the program cuts       *)
(* ("Users", "__ERROR__:", "sudo").  Operations that work on characters    *)
(* (split, startsWith, toLowerCase, trim) work on the symbols.             *)
(***************************************************************************)
EXTENDS Integers, Sequences, FiniteSets, TLC

\* ------------------------------------------------------------------ bounds
\* Longest requested path, in segments.
MaxSegs == 2
\* Longest argument vector (after node and the script name).
MaxArgs == 2

\* ----------------------------------------------------------------- strings
\* String.prototype.toLowerCase, for the symbols that hold an upper-case letter.
LowerSym(c) ==
    CASE c = "C" -> "c"
      [] c = "L" -> "l"
      [] c = "Users" -> "users"
      [] c = "RiderProjects" -> "riderprojects"
      [] c = "Documents" -> "documents"
      [] c = "Cline" -> "cline"
      [] c = "MCP" -> "mcp"
      [] c = "SUDO" -> "sudo"
      [] c = "Ls" -> "ls"
      [] c = "A" -> "a"
      [] c = "B" -> "b"
      [] OTHER -> c

toLowerCase(s) == [i \in 1..Len(s) |-> LowerSym(s[i])]

\* String.prototype.startsWith(prefix).
startsWith(s, prefix) ==
    /\ Len(prefix) <= Len(s)
    /\ \A i \in 1..Len(prefix) : s[i] = prefix[i]

\* String.prototype.slice(n): the string without its first n symbols.
slice(s, n) == IF n >= Len(s) THEN <<>> ELSE SubSeq(s, n + 1, Len(s))

\* String.prototype.split(sep) for a one-symbol separator: the pieces between
\* the separators, empty pieces included ("" gives [""]).
RECURSIVE SplitFrom(_, _, _, _)
SplitFrom(s, sep, i, cur) ==
    IF i > Len(s) THEN <<cur>>
    ELSE IF s[i] = sep THEN <<cur>> \o SplitFrom(s, sep, i + 1, <<>>)
    ELSE SplitFrom(s, sep, i + 1, Append(cur, s[i]))

split(s, sep) == SplitFrom(s, sep, 1, <<>>)

\* Array.prototype.join(sep).
RECURSIVE join(_, _)
join(parts, sep) ==
    IF parts = <<>> THEN <<>>
    ELSE IF Len(parts) = 1 THEN parts[1]
    ELSE parts[1] \o <<sep>> \o join(Tail(parts), sep)

\* Array.prototype.includes.
includes(list, x) == \E i \in 1..Len(list) : list[i] = x

\* -------------------------------------------------------------- node: path
sep == "/"
Dot == <<".">>
DotDot == <<".", ".">>

\* path.isAbsolute (posix).
isAbsolute(p) == Len(p) > 0 /\ p[1] = sep

\* normalizeString of node's path module: drops "" and "." segments and
\* resolves "..": against the previous segment, dropped at the root of an
\* absolute path, kept in front of a relative one (allowAboveRoot).
RECURSIVE NormalizeSegs(_, _, _)
NormalizeSegs(segs, acc, allowAboveRoot) ==
    IF segs = <<>> THEN acc
    ELSE LET s == Head(segs)
             rest == Tail(segs)
         IN IF s = <<>> \/ s = Dot
              THEN NormalizeSegs(rest, acc, allowAboveRoot)
            ELSE IF s = DotDot
              THEN IF acc # <<>> /\ acc[Len(acc)] # DotDot
                     THEN NormalizeSegs(rest, SubSeq(acc, 1, Len(acc) - 1), allowAboveRoot)
                   ELSE IF allowAboveRoot
                     THEN NormalizeSegs(rest, Append(acc, DotDot), allowAboveRoot)
                   ELSE NormalizeSegs(rest, acc, allowAboveRoot)
            ELSE NormalizeSegs(rest, Append(acc, s), allowAboveRoot)

normalizeString(p, allowAboveRoot) ==
    join(NormalizeSegs(split(p, sep), <<>>, allowAboveRoot), sep)

\* path.normalize (posix): keeps a trailing separator, "" becomes ".".
pathNormalize(p) ==
    IF p = <<>> THEN Dot
    ELSE LET abs == isAbsolute(p)
             trailing == p[Len(p)] = sep
             n == normalizeString(p, ~abs)
             n1 == IF n = <<>> /\ ~abs THEN Dot ELSE n
             n2 == IF n1 # <<>> /\ trailing THEN Append(n1, sep) ELSE n1
         IN IF abs THEN <<sep>> \o n2 ELSE n2

\* path.resolve(base, p) (posix) for an absolute base: an absolute p replaces
\* the base; the result is absolute, normalized, without trailing separator.
pathResolve(base, p) ==
    LET full == IF isAbsolute(p) THEN p ELSE base \o <<sep>> \o p
    IN <<sep>> \o normalizeString(full, FALSE)

\* path.join(a, b) (posix): the non-empty arguments joined and normalized.
pathJoin(a, b) ==
    IF b = <<>> THEN pathNormalize(a) ELSE pathNormalize(a \o <<sep>> \o b)

\* path.dirname (posix) of an absolute path without trailing separator.
RECURSIVE LastSep(_, _)
LastSep(p, i) == IF i = 0 THEN 0 ELSE IF p[i] = sep THEN i ELSE LastSep(p, i - 1)

dirname(p) ==
    LET k == LastSep(p, Len(p))
    IN IF k = 0 THEN Dot
       ELSE IF k = 1 THEN <<sep>>
       ELSE SubSeq(p, 1, k - 1)

\* ------------------------------------------------------------- environment
\* process.cwd() and os.homedir() of the running server.
Cwd == <<"/", "c">>
HomeDir == <<"/", "h">>

\* A failed filesystem call (stat or realpath rejecting with ENOENT).
ENOENT == <<"ENOENT">>

\* A filesystem: the canonical paths that exist, and the symbolic links with
\* their targets (absolute, normalized).
FsEscape == [exists |-> {<<"/">>, Cwd, HomeDir, <<"/", "h", "/", "c">>},
             link |-> (<<"/", "c", "/", "L">> :> <<"/", "h">>)]
FsInside == [exists |-> {<<"/">>, Cwd, <<"/", "c", "/", "c", "d">>, <<"/", "c", "/", "c">>},
             link |-> (<<"/", "c", "/", "L">> :> <<"/", "c", "/", "c">>)]
FsPlain  == [exists |-> {<<"/">>, Cwd, HomeDir, <<"/", "c", "/", "L">>,
                         <<"/", "c", "/", "L", "/", "c">>},
             link |-> <<>>]
FsStates == {FsEscape, FsInside, FsPlain}

JoinPath(dir, name) == IF dir = <<sep>> THEN dir \o name ELSE dir \o <<sep>> \o name

\* What the kernel answers to realpath(p) for an absolute p: the segments are
\* walked from the root, "." stays, ".." goes to the parent of the directory
\* reached (after the links followed so far), every directory on the way
\* must exist, and every symbolic link is followed.
RECURSIVE RealWalk(_, _, _, _)
RealWalk(f, cur, segs, fuel) ==
    IF segs = <<>> THEN cur
    ELSE LET s == Head(segs)
             next == JoinPath(cur, s)
         IN IF s = <<>> \/ s = Dot THEN RealWalk(f, cur, Tail(segs), fuel)
            ELSE IF s = DotDot THEN RealWalk(f, dirname(cur), Tail(segs), fuel)
            ELSE IF next \in DOMAIN f.link
              THEN IF fuel = 0 THEN ENOENT
                   ELSE LET t == RealWalk(f, <<sep>>, split(f.link[next], sep), fuel - 1)
                        IN IF t = ENOENT THEN ENOENT
                           ELSE RealWalk(f, t, Tail(segs), fuel)
            ELSE IF next \in f.exists THEN RealWalk(f, next, Tail(segs), fuel)
            ELSE ENOENT

\* fs.realpath(p).
realpath(f, p) ==
    RealWalk(f, <<sep>>, split(p, sep), Cardinality(DOMAIN f.link) + 1)

\* fs.stat(p) follows links too: it succeeds exactly when the path resolves.
statOk(f, p) == realpath(f, p) # ENOENT

\* --------------------------------------------------- allowed directories
\* The compiled-in list the module starts with.
DefaultAllowedDirectories ==
    << <<"/", "Users", "/", "wenleliao", "/", "opensource">>,
       <<"/", "Users", "/", "wenleliao", "/", "doc">>,
       <<"/", "Users", "/", "wenleliao", "/", "RiderProjects">>,
       <<"/", "Users", "/", "wenleliao", "/", "Documents", "/", "Cline", "/", "MCP">>,
       Cwd >>

\* The null parseCommandLineArgs returns when no directory flag gives a value.
NoDirs == << <<"null">> >>

FlagShort == <<"-d">>
FlagLong == <<"--allowed-dir">>
FlagEq == <<"--allowed-dir", "=">>

\* parseCommandLineArgs, from argument i on (argv holds the arguments after
\* node and the script name).
RECURSIVE ParseArgsFrom(_, _, _)
ParseArgsFrom(args, i, directories) ==
    IF i > Len(args) THEN directories
    ELSE LET arg == args[i]
         IN IF arg = FlagShort \/ arg = FlagLong
              THEN IF i + 1 <= Len(args)
                     THEN ParseArgsFrom(args, i + 2, Append(directories, args[i + 1]))
                   ELSE ParseArgsFrom(args, i + 1, directories)
            ELSE IF startsWith(arg, FlagEq)
              THEN LET parts == split(arg, "=")
                       dirPath == parts[2]
                   IN IF dirPath # <<>>
                        THEN ParseArgsFrom(args, i + 1, Append(directories, dirPath))
                      ELSE ParseArgsFrom(args, i + 1, directories)
            ELSE ParseArgsFrom(args, i + 1, directories)

parseCommandLineArgs(args) ==
    LET directories == ParseArgsFrom(args, 1, <<>>)
    IN IF Len(directories) > 0 THEN directories ELSE NoDirs

\* Mutant of WithCwd: the working directory is never added.
WithCwdNever(dirs) == dirs

\* "always add the current working directory": push it when not included.
WithCwd(dirs) == IF includes(dirs, Cwd) THEN dirs ELSE Append(dirs, Cwd)

\* The configuration file as loadAllowedDirectories finds it: unreadable (no
\* file, no path, invalid JSON), without an allowedDirectories array, or with one.
ConfigUnreadable == [readable |-> FALSE, hasList |-> FALSE, dirs |-> <<>>]
ConfigNoList == [readable |-> TRUE, hasList |-> FALSE, dirs |-> <<>>]
ConfigList(dirs) == [readable |-> TRUE, hasList |-> TRUE, dirs |-> dirs]

ConfigStates ==
    {ConfigUnreadable, ConfigNoList, ConfigList(<<>>),
     ConfigList(<< <<"/", "c", "d">> >>), ConfigList(<< HomeDir >>)}

\* The argument vectors of the server.
ArgSet == {FlagShort, FlagEq \o <<"/", "c", "d">>, <<"/", "h">>}
ArgvSet == UNION {[1..k -> ArgSet] : k \in 0..MaxArgs}

\* ------------------------------------------------------------ validatePath
\* Return values of validatePath are strings: a path, or a message behind the
\* error marker.
ErrorMarker == "__ERROR__:"
AccessDeniedPrefix ==
    <<ErrorMarker, " Access denied. Path is not within allowed directories: ">>
AccessDeniedResult(abs) == AccessDeniedPrefix \o abs
TimedOutPrefix ==
    <<ErrorMarker, " Path validation timed out after 10 seconds for: ">>
TimedOutResult(requested) == TimedOutPrefix \o requested

\* The default value validatePath hands to withTimeout.
Null == <<"null">>
\* A promise that is not settled, and one that is rejected.
Pending == <<"<pending>">>
Rejected == <<"<rejected>">>

expandHome(filepath) ==
    IF startsWith(filepath, <<"~", "/">>) \/ filepath = <<"~">>
      THEN pathJoin(HomeDir, slice(filepath, 1))
    ELSE filepath

\* "Convert to absolute path".
toAbsolute(requested) ==
    LET expandedPath == expandHome(requested)
    IN IF isAbsolute(expandedPath)
         THEN pathResolve(<<>>, expandedPath)
       ELSE pathResolve(Cwd, expandedPath)

normalizePath(p) == toLowerCase(pathNormalize(p))

\* Mutant of dirContains: the prefix test without the separator.
dirContainsNoSep(dir, abs) ==
    LET normalizedDir == normalizePath(dir)
        normalizedPath == normalizePath(abs)
    IN \/ normalizedPath = normalizedDir
       \/ startsWith(normalizedPath, normalizedDir)

\* The containment test of one allowed directory.
dirContains(dir, abs) ==
    LET normalizedDir == normalizePath(dir)
        normalizedPath == normalizePath(abs)
    IN \/ normalizedPath = normalizedDir
       \/ startsWith(normalizedPath, Append(normalizedDir, sep))

\* allowedDirectories.some(...).
isAllowed(dirs, abs) == \E i \in 1..Len(dirs) : dirContains(dirs[i], abs)

\* The synchronous head of validateParentDirectories(directoryPath): FALSE at
\* the base case, else the parent whose realpath it awaits.
parentToCheck(directoryPath) ==
    LET parentDir == dirname(directoryPath)
    IN IF parentDir = directoryPath \/ parentDir = dirname(parentDir)
         THEN Null
       ELSE parentDir

\* Mutant of existingPathResult: the path is returned with its links unresolved.
existingPathResultUnresolved(real, abs) == abs

\* What validationOperation returns for a path that exists: its real path.
existingPathResult(real, abs) == real

\* Mutant of missingPathResult: no existing parent is an error.
missingPathResultNeedsParent(abs, parentFound) ==
    IF parentFound THEN abs ELSE <<ErrorMarker, " No existing parent directory: ">> \o abs

\* What it returns for a path that does not exist: the absolute path, whether
\* validateParentDirectories found an existing parent or not.
missingPathResult(abs, parentFound) == IF parentFound THEN abs ELSE abs

\* withTimeout(operation, ms, name, defaultValue): the value of the operation
\* when it settles first, defaultValue when the timer fires first.
withTimeout(operationValue, timerFirst, defaultValue) ==
    IF timerFirst THEN defaultValue ELSE operationValue

\* Mutant of validatePathReturn: the race result is returned as it is.
validatePathReturnRaw(raceResult, requested) == raceResult

\* The tail of validatePath: a null race result becomes the timeout message.
validatePathReturn(raceResult, requested) ==
    IF raceResult = Null THEN TimedOutResult(requested) ELSE raceResult

\* ---------------------------------------------------------- CommandManager
\* Longest command line, in symbols.
MaxCmdLen == 3

DEFAULT_BLOCKED_COMMANDS ==
    {<<"format">>, <<"mount">>, <<"umount">>, <<"mkfs">>, <<"fdisk">>, <<"dd">>,
     <<"sudo">>, <<"su">>, <<"passwd">>, <<"adduser">>, <<"useradd">>,
     <<"usermod">>, <<"groupadd">>}

\* The characters String.prototype.trim removes.
Whitespace == {" ", "\t"}

RECURSIVE trimStart(_)
trimStart(s) == IF s # <<>> /\ Head(s) \in Whitespace THEN trimStart(Tail(s)) ELSE s

RECURSIVE trimEnd(_)
trimEnd(s) ==
    IF s # <<>> /\ s[Len(s)] \in Whitespace THEN trimEnd(SubSeq(s, 1, Len(s) - 1)) ELSE s

trim(s) == trimEnd(trimStart(s))

\* command.split(' ')[0].toLowerCase().trim()
getBaseCommand(command) == trim(toLowerCase(split(command, " ")[1]))

validateCommand(blocked, command) == getBaseCommand(command) \notin blocked

\* ------------------------------------------------------- extractCommands
\* Longest command line given to extractCommands, in symbols.
MaxExtLen == 5
\* Longest command line with subshells.
MaxNestLen == 6

\* The depth of recursion at which the call stack is used up: deeper than
\* the parentheses of a line of MaxNestLen symbols can nest, so that only a
\* recursion without end gets there.
StackLimit == MaxNestLen

\* The symbols that are not word characters (\w is [A-Za-z0-9_]).
NonWordSyms ==
    Whitespace \cup {";", "&", "|", "(", ")", "\"", "'", "\\", "=", "$", "-", "/", "."}

IsWordSym(c) == c \notin NonWordSyms

\* The length of the longest prefix of s whose symbols satisfy the test.
RECURSIVE RunOfWord(_)
RunOfWord(s) == IF s # <<>> /\ IsWordSym(Head(s)) THEN 1 + RunOfWord(Tail(s)) ELSE 0

RECURSIVE RunOfNonSpace(_)
RunOfNonSpace(s) ==
    IF s # <<>> /\ Head(s) \notin Whitespace THEN 1 + RunOfNonSpace(Tail(s)) ELSE 0

RECURSIVE RunOfSpace(_)
RunOfSpace(s) ==
    IF s # <<>> /\ Head(s) \in Whitespace THEN 1 + RunOfSpace(Tail(s)) ELSE 0

\* The length of the match of /\w+=\S+\s*/ at the start of s, 0 without one.
EnvVarMatch(s) ==
    LET w == RunOfWord(s)
        afterEq == slice(s, w + 1)
        v == RunOfNonSpace(afterEq)
    IN IF w > 0 /\ Len(s) > w /\ s[w + 1] = "=" /\ v > 0
         THEN w + 1 + v + RunOfSpace(slice(afterEq, v))
       ELSE 0

\* commandStr.replace(/\w+=\S+\s*/g, ''): every match, leftmost first, is
\* cut out.
RECURSIVE replaceEnvVars(_)
replaceEnvVars(s) ==
    IF s = <<>> THEN <<>>
    ELSE IF EnvVarMatch(s) > 0 THEN replaceEnvVars(slice(s, EnvVarMatch(s)))
    ELSE <<Head(s)>> \o replaceEnvVars(Tail(s))

\* Mutant of extractBaseCommand: the first token as it is written.
extractBaseCommandAsWritten(commandStr) ==
    LET withoutEnvVars == trim(replaceEnvVars(commandStr))
        firstToken == SubSeq(withoutEnvVars, 1, RunOfNonSpace(withoutEnvVars))
    IN IF withoutEnvVars = <<>> THEN Null
       ELSE IF firstToken[1] \in {"(", "$"} THEN Null
       ELSE firstToken

\* extractBaseCommand: the command name of one segment, Null for none.
extractBaseCommand(commandStr) ==
    LET withoutEnvVars == trim(replaceEnvVars(commandStr))
        firstToken == SubSeq(withoutEnvVars, 1, RunOfNonSpace(withoutEnvVars))
    IN IF withoutEnvVars = <<>> THEN Null
       ELSE IF firstToken[1] \in {"(", "$"} THEN Null
       ELSE toLowerCase(firstToken)

\* String.prototype.substring(start, end), with indices counted from 0:
\* both are clamped to the string and swapped when start is the larger.
substring(s, start, end) ==
    LET clamp(n) == IF n < 0 THEN 0 ELSE IF n > Len(s) THEN Len(s) ELSE n
        a == clamp(start)
        b == clamp(end)
    IN IF a <= b THEN SubSeq(s, a + 1, b) ELSE SubSeq(s, b + 1, a)

\* String.prototype.startsWith(separator, i), i counted from 0.
startsWithAt(s, separator, i) == startsWith(slice(s, i), separator)

\* The separators, in the order the scan tries them.
separators == << <<";">>, <<"&", "&">>, <<"|", "|">>, <<"|">>, <<"&">> >>

\* Mutant of SeparatorAt: the semicolon is the only separator.
SeparatorAtSemicolonOnly(s, i) == IF startsWithAt(s, <<";">>, i) THEN 1 ELSE 0

\* The length of the first separator that starts at i (from 0), 0 for none.
SeparatorAt(s, i) ==
    IF \E k \in DOMAIN separators : startsWithAt(s, separators[k], i)
      THEN Len(separators[CHOOSE k \in DOMAIN separators :
                            /\ startsWithAt(s, separators[k], i)
                            /\ \A m \in 1..(k - 1) : ~startsWithAt(s, separators[m], i)])
    ELSE 0

\* Mutant of ParenScan: the first closing parenthesis ends the search.
RECURSIVE ParenScanFirstClose(_, _, _)
ParenScanFirstClose(s, j, openParens) ==
    IF j >= Len(s) THEN j
    ELSE IF s[j + 1] = ")" THEN j + 1
    ELSE ParenScanFirstClose(s, j + 1, openParens)

\* The while loop that looks for the closing parenthesis: j (from 0) when
\* it stops.
RECURSIVE ParenScan(_, _, _)
ParenScan(s, j, openParens) ==
    IF j < Len(s) /\ openParens > 0
      THEN ParenScan(s, j + 1,
                     openParens + (IF s[j + 1] = "(" THEN 1 ELSE 0)
                                - (IF s[j + 1] = ")" THEN 1 ELSE 0))
    ELSE j

\* [...new Set(commands)]: each command once, at its first place.
RECURSIVE Unique(_, _)
Unique(commands, seen) ==
    IF commands = <<>> THEN <<>>
    ELSE IF Head(commands) \in seen THEN Unique(Tail(commands), seen)
    ELSE <<Head(commands)>> \o Unique(Tail(commands), seen \cup {Head(commands)})

\* commands after the segment currentCmd is closed.
PushBaseCommand(commands, currentCmd) ==
    IF trim(currentCmd) # <<>> /\ extractBaseCommand(trim(currentCmd)) # Null
      THEN Append(commands, extractBaseCommand(trim(currentCmd)))
    ELSE commands

\* Mutant of opensQuote: only the double quote opens a quoted text.
opensQuoteDoubleOnly(char, inQuote) == char = "\"" /\ ~inQuote

\* The test for an opening quote character.
opensQuote(char, inQuote) == char \in {"\"", "'"} /\ ~inQuote

RECURSIVE extractCommandsAt(_, _)
RECURSIVE ExtractLoop(_, _, _, _, _, _, _, _)

\* The for loop of extractCommands from index i (from 0) and what follows
\* it, in the call at the given depth of recursion.
ExtractLoop(s, i, inQuote, quoteChar, currentCmd, escaped, commands, depth) ==
    IF i >= Len(s) THEN Unique(PushBaseCommand(commands, currentCmd), {})
    ELSE
      LET char == s[i + 1]
          more == Append(currentCmd, char)
      IN IF char = "\\" /\ ~escaped
           THEN ExtractLoop(s, i + 1, inQuote, quoteChar, more, TRUE, commands, depth)
         ELSE IF escaped
           THEN ExtractLoop(s, i + 1, inQuote, quoteChar, more, FALSE, commands, depth)
         ELSE IF opensQuote(char, inQuote)
           THEN ExtractLoop(s, i + 1, TRUE, char, more, FALSE, commands, depth)
         ELSE IF char = quoteChar /\ inQuote
           THEN ExtractLoop(s, i + 1, FALSE, "", more, FALSE, commands, depth)
         ELSE IF inQuote
           THEN ExtractLoop(s, i + 1, TRUE, quoteChar, more, FALSE, commands, depth)
         ELSE IF char = "("
           THEN LET j == ParenScan(s, i + 1, 1)
                    subshellContent == substring(s, i + 1, j - 1)
                    subCommands == extractCommandsAt(subshellContent, depth + 1)
                IN ExtractLoop(s, j, FALSE, "", currentCmd, FALSE,
                               commands \o subCommands, depth)
         ELSE IF SeparatorAt(s, i) > 0
           THEN ExtractLoop(s, i + SeparatorAt(s, i), FALSE, "", <<>>, FALSE,
                            PushBaseCommand(commands, currentCmd), depth)
         ELSE ExtractLoop(s, i + 1, FALSE, "", more, FALSE, commands, depth)

\* extractCommands in a call at the given depth of recursion. Past the
\* stack limit the call fails and its catch returns the base command of
\* the whole string.
extractCommandsAt(commandString, depth) ==
    IF depth > StackLimit THEN <<getBaseCommand(commandString)>>
    ELSE ExtractLoop(trim(commandString), 0, FALSE, "", <<>>, FALSE, <<>>, depth)

extractCommands(commandString) == extractCommandsAt(commandString, 0)

\* The command lines given to extractCommands: segments and separators,
\* quotes and escapes, subshells, and assignments.
LinesOver(syms, n) == UNION {[1..k -> syms] : k \in 0..n}
PlainLines == LinesOver({"a", "b", " ", ";", "&", "|"}, MaxExtLen)
QuoteLines == LinesOver({"a", ";", "\"", "'", "\\", "("}, MaxExtLen)
NestLines == LinesOver({"a", "B", ";", "(", ")"}, MaxNestLen)
EnvLines == LinesOver({"a", "A", "=", "$", " ", ";"}, MaxExtLen)
EscapeLines == LinesOver({"a", "\\", ";", "(", ")"}, MaxExtLen)
SubshellLines ==
    {<<"(">> \o t : t \in LinesOver({"a", ";", ")", "\""}, MaxNestLen)}
ExtractLines ==
    PlainLines \cup QuoteLines \cup NestLines \cup EnvLines \cup EscapeLines
      \cup SubshellLines

\* The segments given to extractBaseCommand.
Segments == LinesOver({"B", "=", "$", " ", "(", "-"}, MaxExtLen)

\* The letters of the words that stand as one symbol, and the UTF-16 code
\* units Array.prototype.sort compares strings by.
Letters ==
    <<"a", "b", "c", "d", "e", "f", "g", "h", "i", "j", "k", "l", "m",
      "n", "o", "p", "q", "r", "s", "t", "u", "v", "w", "x", "y", "z">>

Spell(w) ==
     CASE w = "format" -> <<"f", "o", "r", "m", "a", "t">>
      [] w = "mount" -> <<"m", "o", "u", "n", "t">>
      [] w = "umount" -> <<"u", "m", "o", "u", "n", "t">>
      [] w = "mkfs" -> <<"m", "k", "f", "s">>
      [] w = "fdisk" -> <<"f", "d", "i", "s", "k">>
      [] w = "dd" -> <<"d", "d">>
      [] w = "sudo" -> <<"s", "u", "d", "o">>
      [] w = "su" -> <<"s", "u">>
      [] w = "passwd" -> <<"p", "a", "s", "s", "w", "d">>
      [] w = "adduser" -> <<"a", "d", "d", "u", "s", "e", "r">>
      [] w = "useradd" -> <<"u", "s", "e", "r", "a", "d", "d">>
      [] w = "usermod" -> <<"u", "s", "e", "r", "m", "o", "d">>
      [] w = "groupadd" -> <<"g", "r", "o", "u", "p", "a", "d", "d">>
      [] w = "ls" -> <<"l", "s">>
      [] OTHER -> <<w>>

CodeUnit(ch) ==
    IF \E i \in DOMAIN Letters : Letters[i] = ch
      THEN 96 + (CHOOSE i \in DOMAIN Letters : Letters[i] = ch)
    ELSE IF ch = " " THEN 32
    ELSE 9

RECURSIVE CodeUnits(_)
CodeUnits(str) ==
    IF str = <<>> THEN <<>>
    ELSE [i \in 1..Len(Spell(Head(str))) |-> CodeUnit(Spell(Head(str))[i])]
           \o CodeUnits(Tail(str))

\* The comparison of the default sort: a before b in code-unit order.
RECURSIVE UnitsBefore(_, _)
UnitsBefore(a, b) ==
    IF b = <<>> THEN FALSE
    ELSE IF a = <<>> THEN TRUE
    ELSE IF Head(a) # Head(b) THEN Head(a) < Head(b)
    ELSE UnitsBefore(Tail(a), Tail(b))

sortBefore(a, b) == UnitsBefore(CodeUnits(a), CodeUnits(b))

\* Mutant of sortStrings: the members in descending order.
RECURSIVE sortStringsDescending(_)
sortStringsDescending(S) ==
    IF S = {} THEN <<>>
    ELSE LET last == CHOOSE x \in S : \A y \in S \ {x} : sortBefore(y, x)
         IN <<last>> \o sortStringsDescending(S \ {last})

\* Array.from(set).sort(): the members of the set in ascending order.
RECURSIVE sortStrings(_)
sortStrings(S) ==
    IF S = {} THEN <<>>
    ELSE LET first == CHOOSE x \in S : \A y \in S \ {x} : sortBefore(x, y)
         IN <<first>> \o sortStrings(S \ {first})

\* The command lines and names callers give.
CmdSyms == {" ", "\t", "sudo", "SUDO", "ls"}
CommandLines == UNION {[1..k -> CmdSyms] : k \in 0..MaxCmdLen}
NameSet == {<<"ls">>, <<" ", "Ls">>, <<"SUDO">>}

\* ------------------------------------------------------------------- state
VARIABLES
    argv,               \* process.argv after the script name
    configFile,         \* the configuration file, as a read finds it
    fs,                 \* the filesystem
    allowedDirectories, \* the module's allow-list
    loadPc,             \* loadAllowedDirectories: "idle", or awaiting the read
                        \* of the module's own load ("init") or of a reload
    reloadResult,       \* what the last reloadAllowedDirectories returned
    opPc,               \* validationOperation: "idle", the call it awaits
                        \* ("stat", "realpath", "walk"), or "done"
    requestedPath,      \* the argument of the validatePath call
    absolute,           \* its absolute path
    walkDir,            \* the parent validateParentDirectories awaits
    opResult,           \* the promise of validationOperation
    timer,              \* the timer of withTimeout: "none", "armed", "fired", "cleared"
    result,             \* what validatePath returned (Pending before)
    blockedCommands,    \* CommandManager.blockedCommands
    cmdOp,              \* the last CommandManager method called ("none" before)
    cmdArg,             \* its argument
    cmdRet,             \* the boolean it returned: "true", "false", or "none"
    cmdList,            \* the array it returned (NoList when it returns none)
    fileOp,             \* the file operation under way or finished: its name,
                        \* position, paths, the results of its validatePath
                        \* calls, the mutating filesystem calls it made, and
                        \* how it ended
    serverPc            \* runServer: "starting", how it left ("help", "setup",
                        \* "refused"), "loading" while it awaits
                        \* loadBlockedCommands, "connected"; "none" where
                        \* the modules are used without it

envVars == <<argv, configFile, fs>>
loadVars == <<allowedDirectories, loadPc, reloadResult>>
callVars == <<opPc, requestedPath, absolute, walkDir, opResult, timer, result>>
cmdVars == <<blockedCommands, cmdOp, cmdArg, cmdRet, cmdList>>
vars == <<argv, configFile, fs, allowedDirectories, loadPc, reloadResult,
          opPc, requestedPath, absolute, walkDir, opResult, timer, result,
          blockedCommands, cmdOp, cmdArg, cmdRet, cmdList, fileOp, serverPc>>

NoFileOp ==
    [name |-> "none", pc |-> "idle", paths |-> <<>>, results |-> <<>>,
     calls |-> {}, outcome |-> "none", message |-> <<>>]

NotReloaded == << <<"<none>">> >>
NoList == << <<"<no array>">> >>

\* The paths a caller asks for: up to MaxSegs segments, absolute or relative.
SegSet == {<<"c">>, <<"c", "d">>, <<"C">>, <<"L">>, <<"~">>, Dot, DotDot}
RequestedPaths ==
    LET rel == {join(segs, sep) : segs \in UNION {[1..k -> SegSet] : k \in 0..MaxSegs}}
    IN rel \cup {<<sep>> \o p : p \in rel}

\* A few paths, for the runs that are about loading.
ProbePaths == {<<"/", "c", "d">>, <<"/", "h", "/", "c">>, <<"L">>, <<"/", "x">>}

\* -------------------------------------------------- loadAllowedDirectories
\* Mutant of loadFromArgs: the flags are ignored and the configuration is read.
loadFromArgsIgnored(dirs, args) == [dirs |-> dirs, reading |-> TRUE]

\* The synchronous head of loadAllowedDirectories: with directory flags the
\* list is replaced at once, without them the read of the configuration
\* file is awaited.
loadFromArgs(dirs, args) ==
    LET cmdDirs == parseCommandLineArgs(args)
    IN IF cmdDirs # NoDirs
         THEN [dirs |-> WithCwd(cmdDirs), reading |-> FALSE]
       ELSE [dirs |-> dirs, reading |-> TRUE]

\* The rest of loadAllowedDirectories, when the read has settled: an
\* allowedDirectories array replaces the list, anything else (a failed read,
\* invalid JSON, no such field) leaves the list as it is.
loadFromConfig(dirs, config) ==
    IF config.readable /\ config.hasList THEN WithCwd(config.dirs) ELSE dirs

\* The state after construction, but for the argument of the call to come.
InitState(argvs) ==
    /\ argv \in argvs
    /\ configFile \in ConfigStates
    /\ fs \in FsStates
    /\ LET l == loadFromArgs(DefaultAllowedDirectories, argv)
       IN /\ allowedDirectories = l.dirs
          /\ loadPc = IF l.reading THEN "init" ELSE "idle"
    /\ reloadResult = NotReloaded
    /\ opPc = "idle"
    /\ requestedPath = <<>>
    /\ absolute = <<>>
    /\ walkDir = <<>>
    /\ opResult = Pending
    /\ timer = "none"
    /\ result = Pending
    /\ blockedCommands = DEFAULT_BLOCKED_COMMANDS
    /\ cmdOp = "none"
    /\ cmdRet = "none"
    /\ cmdList = NoList
    /\ fileOp = NoFileOp

InitWith(argvs) == InitState(argvs) /\ cmdArg = <<>> /\ serverPc = "none"

\* reloadAllowedDirectories() is called.
ReloadCall ==
    /\ loadPc = "idle"
    /\ LET l == loadFromArgs(allowedDirectories, argv)
       IN /\ allowedDirectories' = l.dirs
          /\ loadPc' = IF l.reading THEN "reload" ELSE "idle"
          /\ reloadResult' = IF l.reading THEN reloadResult ELSE l.dirs
    /\ UNCHANGED <<serverPc, fileOp, cmdVars, envVars, callVars>>

\* The read of the configuration file settles.
ConfigReadDone ==
    /\ loadPc \in {"init", "reload"}
    /\ LET dirs == loadFromConfig(allowedDirectories, configFile)
       IN /\ allowedDirectories' = dirs
          /\ reloadResult' = IF loadPc = "reload" THEN dirs ELSE reloadResult
    /\ loadPc' = "idle"
    /\ UNCHANGED <<serverPc, fileOp, cmdVars, envVars, callVars>>

\* Somebody edits, removes or restores the configuration file.
ConfigChange ==
    /\ \E c \in ConfigStates \ {configFile} : configFile' = c
    /\ UNCHANGED <<serverPc, fileOp, cmdVars, argv, fs, loadVars, callVars>>

\* ------------------------------------------------------------ validatePath
\* Mutant of OpSettles: an operation that settles after the timer has fired
\* replaces the result validatePath has returned.
OpSettlesOverwrites(v) ==
    /\ opPc' = "done"
    /\ opResult' = v
    /\ timer' = IF timer = "armed" THEN "cleared" ELSE timer
    /\ result' = validatePathReturn(withTimeout(v, FALSE, Null), requestedPath)

\* Mutant of OpSettles: containment is decided again, against the
\* allow-list of the moment the operation settles.
OpSettlesRechecks(v) ==
    LET late == IF isAllowed(allowedDirectories, absolute)
                  THEN v
                ELSE AccessDeniedResult(absolute)
    IN /\ opPc' = "done"
       /\ opResult' = late
       /\ IF timer = "armed"
            THEN /\ timer' = "cleared"
                 /\ result' = validatePathReturn(withTimeout(late, FALSE, Null), requestedPath)
          ELSE UNCHANGED <<timer, result>>

\* validationOperation returns v: the race of withTimeout is won by the
\* operation when the timer has not fired, and validatePath returns.
OpSettles(v) ==
    /\ opPc' = "done"
    /\ opResult' = v
    /\ IF timer = "armed"
         THEN /\ timer' = "cleared"
              /\ result' = validatePathReturn(withTimeout(v, FALSE, Null), requestedPath)
       ELSE UNCHANGED <<timer, result>>

\* Mutant of EnterParentCheck: the failure of the filesystem call is not caught.
EnterParentCheckUncaught(dir) == OpSettles(Rejected) /\ UNCHANGED walkDir

\* The catch branch: validateParentDirectories(dir), and both of its
\* outcomes return the absolute path.
EnterParentCheck(dir) ==
    LET parentDir == parentToCheck(dir)
    IN IF parentDir = Null
         THEN OpSettles(missingPathResult(absolute, FALSE)) /\ UNCHANGED walkDir
       ELSE /\ opPc' = "walk"
            /\ walkDir' = parentDir
            /\ UNCHANGED <<opResult, timer, result>>

\* validatePath(p) runs up to its first await.
ValidateStart(p) ==
    LET abs == toAbsolute(p)
    IN /\ requestedPath' = p
       /\ absolute' = abs
       /\ walkDir' = <<>>
       /\ IF ~isAllowed(allowedDirectories, abs)
            THEN /\ opPc' = "done"
                 /\ opResult' = AccessDeniedResult(abs)
                 /\ timer' = "cleared"
                 /\ result' = validatePathReturn(
                                  withTimeout(AccessDeniedResult(abs), FALSE, Null), p)
          ELSE /\ opPc' = "stat"
               /\ opResult' = Pending
               /\ timer' = "armed"
               /\ result' = Pending

\* validatePath(p) is called: everything up to the first await.
ValidateCall(paths) ==
    /\ opPc = "idle"
    /\ \E p \in paths : ValidateStart(p)
    /\ UNCHANGED <<serverPc, fileOp, cmdVars, envVars, loadVars>>

\* fs.stat(absolute) settles.
StatDone ==
    /\ opPc = "stat"
    /\ IF statOk(fs, absolute)
         THEN /\ opPc' = "realpath"
              /\ UNCHANGED <<walkDir, opResult, timer, result>>
       ELSE EnterParentCheck(absolute)
    /\ UNCHANGED <<serverPc, fileOp, cmdVars, envVars, loadVars, requestedPath, absolute>>

\* fs.realpath(absolute) settles.
RealpathDone ==
    /\ opPc = "realpath"
    /\ LET real == realpath(fs, absolute)
       IN IF real # ENOENT
            THEN OpSettles(existingPathResult(real, absolute)) /\ UNCHANGED walkDir
          ELSE EnterParentCheck(absolute)
    /\ UNCHANGED <<serverPc, fileOp, cmdVars, envVars, loadVars, requestedPath, absolute>>

\* fs.realpath(parentDir) of validateParentDirectories settles.
WalkDone ==
    /\ opPc = "walk"
    /\ IF realpath(fs, walkDir) # ENOENT
         THEN OpSettles(missingPathResult(absolute, TRUE)) /\ UNCHANGED walkDir
       ELSE EnterParentCheck(walkDir)
    /\ UNCHANGED <<serverPc, fileOp, cmdVars, envVars, loadVars, requestedPath, absolute>>

\* The timer of withTimeout fires while the operation is still awaiting a
\* filesystem call: validatePath returns, the operation is abandoned.
TimerFire ==
    /\ timer = "armed"
    /\ opPc \in {"stat", "realpath", "walk"}
    /\ timer' = "fired"
    /\ result' = validatePathReturn(withTimeout(opResult, TRUE, Null), requestedPath)
    /\ UNCHANGED <<serverPc, fileOp, cmdVars, envVars, loadVars, opPc, requestedPath, absolute, walkDir, opResult>>

\* The caller has taken the result of a finished call.
Return ==
    /\ opPc = "done"
    /\ fileOp.pc \notin {"first", "second"}
    /\ opPc' = "idle"
    /\ requestedPath' = <<>>
    /\ absolute' = <<>>
    /\ walkDir' = <<>>
    /\ opResult' = Pending
    /\ timer' = "none"
    /\ result' = Pending
    /\ UNCHANGED <<serverPc, fileOp, cmdVars, envVars, loadVars>>

\* --------------------------------------------------------- file operations
\* The mutating filesystem call each operation ends with.
FsCallOf(name) ==
    CASE name = "writeFile" -> "fs.writeFile"
      [] name = "createDirectory" -> "fs.mkdir"
      [] name = "moveFile" -> "fs.rename"
      [] name = "readMultipleFiles" -> "fs.readFile"

\* The arguments of the operations: one path, and two for moveFile.
FileOpCalls ==
    {[name |-> n, paths |-> <<q>>] : n \in {"writeFile", "createDirectory"},
                                   q \in ProbePaths}
      \cup {[name |-> "moveFile", paths |-> <<q, r>>] : q \in ProbePaths, r \in ProbePaths}

\* Mutant of isValidationError: only a denial counts as an error.
isValidationErrorDeniedOnly(validPath) == startsWith(validPath, AccessDeniedPrefix)

\* validPath.startsWith('__ERROR__:')
isValidationError(validPath) == startsWith(validPath, <<ErrorMarker>>)

\* validPath.substring('__ERROR__:'.length).trim()
errorMessageOf(validPath) == trim(slice(validPath, 1))

\* writeFile, createDirectory or moveFile is called: it calls validatePath on
\* its first path.
FileOpCall ==
    /\ fileOp.pc \in {"idle", "done"}
    /\ opPc = "idle"
    /\ \E c \in FileOpCalls :
         /\ ValidateStart(c.paths[1])
         /\ fileOp' = [NoFileOp EXCEPT !.name = c.name, !.pc = "first", !.paths = c.paths]
    /\ UNCHANGED <<serverPc, cmdVars, envVars, loadVars>>

\* The checks after the validatePath calls, and the filesystem call.
FileOpFinish(results) ==
    LET errors == {i \in DOMAIN results : isValidationError(results[i])}
    IN /\ IF errors # {}
            THEN fileOp' = [fileOp EXCEPT
                              !.pc = "done", !.results = results,
                              !.outcome = "thrown",
                              !.message = errorMessageOf(
                                  results[CHOOSE i \in errors : \A k \in errors : i <= k])]
          ELSE fileOp' = [fileOp EXCEPT
                            !.pc = "done", !.results = results,
                            !.outcome = "returned",
                            !.calls = {[call |-> FsCallOf(fileOp.name), args |-> results]}]
       /\ IF opPc = "done"
            THEN /\ opPc' = "idle"
                 /\ requestedPath' = <<>>
                 /\ absolute' = <<>>
                 /\ walkDir' = <<>>
                 /\ opResult' = Pending
                 /\ timer' = "none"
                 /\ result' = Pending
          ELSE UNCHANGED callVars

\* The paths readMultipleFiles is called with, one at a time.
ReadPaths == ProbePaths \cup {<<"~">>, <<"L", "/", "c">>, <<"/", "C">>, <<"c", "/", ".">>}
ReadCalls == {[name |-> "readMultipleFiles", paths |-> <<q>>] : q \in ReadPaths}

\* readMultipleFiles is called: for each path it calls validatePath.
ReadCall ==
    /\ fileOp.pc \in {"idle", "done"}
    /\ opPc = "idle"
    /\ \E c \in ReadCalls :
         /\ ValidateStart(c.paths[1])
         /\ fileOp' = [NoFileOp EXCEPT !.name = c.name, !.pc = "first", !.paths = c.paths]
    /\ UNCHANGED <<serverPc, cmdVars, envVars, loadVars>>

\* readFileFromDisk after its own validatePath call: an error becomes the
\* content it returns, a path is read.
ReadFinish(results) ==
    LET validPath == results[Len(results)]
    IN /\ IF isValidationError(validPath)
            THEN fileOp' = [fileOp EXCEPT
                              !.pc = "done", !.results = results,
                              !.outcome = "returned",
                              !.message = errorMessageOf(validPath)]
          ELSE fileOp' = [fileOp EXCEPT
                            !.pc = "done", !.results = results,
                            !.outcome = "returned",
                            !.calls = {[call |-> FsCallOf(fileOp.name), args |-> <<validPath>>]}]
       /\ IF opPc = "done"
            THEN /\ opPc' = "idle"
                 /\ requestedPath' = <<>>
                 /\ absolute' = <<>>
                 /\ walkDir' = <<>>
                 /\ opResult' = Pending
                 /\ timer' = "none"
                 /\ result' = Pending
          ELSE UNCHANGED callVars

\* validatePath has returned to the file operation: moveFile calls it again
\* for the destination, and after the last call the operation checks the
\* results and makes its filesystem call or throws. readMultipleFiles hands
\* what validatePath returned to readFile, which calls validatePath on it.
FileOpContinue ==
    /\ fileOp.pc \in {"first", "second"}
    /\ result # Pending
    /\ IF fileOp.name = "moveFile" /\ fileOp.pc = "first"
         THEN /\ ValidateStart(fileOp.paths[2])
              /\ fileOp' = [fileOp EXCEPT !.pc = "second",
                                          !.results = Append(fileOp.results, result)]
       ELSE IF fileOp.name = "readMultipleFiles" /\ fileOp.pc = "first"
         THEN /\ ValidateStart(result)
              /\ fileOp' = [fileOp EXCEPT !.pc = "second",
                                          !.results = Append(fileOp.results, result)]
       ELSE IF fileOp.name = "readMultipleFiles"
         THEN ReadFinish(Append(fileOp.results, result))
       ELSE FileOpFinish(Append(fileOp.results, result))
    /\ UNCHANGED <<serverPc, cmdVars, envVars, loadVars>>

\* ---------------------------------------------------------- CommandManager
sandboxVars == <<argv, configFile, fs, allowedDirectories, loadPc, reloadResult,
                 opPc, requestedPath, absolute, walkDir, opResult, timer, result,
                 fileOp, serverPc>>

Bool(b) == IF b THEN "true" ELSE "false"

ValidateCommand ==
    /\ \E command \in CommandLines :
         /\ cmdOp' = "validateCommand"
         /\ cmdArg' = command
         /\ cmdRet' = Bool(validateCommand(blockedCommands, command))
    /\ cmdList' = NoList
    /\ UNCHANGED <<blockedCommands, sandboxVars>>

\* blockCommand: the blocked set it leaves and the boolean it returns.
blockCommand(blocked, name) ==
    LET command == trim(toLowerCase(name))
    IN IF command \in blocked
         THEN [blocked |-> blocked, ret |-> FALSE]
       ELSE [blocked |-> blocked \cup {command}, ret |-> TRUE]

\* Mutant of unblockCommand: the name stays in the set.
unblockCommandKeeps(blocked, name) ==
    [blocked |-> blocked, ret |-> trim(toLowerCase(name)) \in blocked]

\* unblockCommand: the blocked set it leaves and the boolean it returns.
unblockCommand(blocked, name) ==
    LET command == trim(toLowerCase(name))
    IN IF command \notin blocked
         THEN [blocked |-> blocked, ret |-> FALSE]
       ELSE [blocked |-> blocked \ {command}, ret |-> TRUE]

BlockCommand ==
    /\ \E name \in NameSet :
         LET r == blockCommand(blockedCommands, name)
         IN /\ cmdOp' = "blockCommand"
            /\ cmdArg' = name
            /\ blockedCommands' = r.blocked
            /\ cmdRet' = Bool(r.ret)
    /\ cmdList' = NoList
    /\ UNCHANGED sandboxVars

UnblockCommand ==
    /\ \E name \in NameSet :
         LET r == unblockCommand(blockedCommands, name)
         IN /\ cmdOp' = "unblockCommand"
            /\ cmdArg' = name
            /\ blockedCommands' = r.blocked
            /\ cmdRet' = Bool(r.ret)
    /\ cmdList' = NoList
    /\ UNCHANGED sandboxVars

ListBlockedCommands ==
    /\ cmdOp' = "listBlockedCommands"
    /\ cmdArg' = <<>>
    /\ cmdRet' = "none"
    /\ cmdList' = sortStrings(blockedCommands)
    /\ UNCHANGED <<blockedCommands, sandboxVars>>

\* extractCommands is called on the command line in cmdArg.
ExtractCommands ==
    /\ cmdOp = "none"
    /\ cmdArg \in ExtractLines
    /\ cmdOp' = "extractCommands"
    /\ cmdList' = extractCommands(cmdArg)
    /\ cmdRet' = "none"
    /\ UNCHANGED <<cmdArg, blockedCommands, sandboxVars>>

\* extractBaseCommand called on its own; cmdList holds the one value it
\* returned, Null for null.
ExtractBaseCommand ==
    /\ cmdOp = "none"
    /\ cmdArg \in Segments
    /\ cmdOp' = "extractBaseCommand"
    /\ cmdList' = <<extractBaseCommand(cmdArg)>>
    /\ cmdRet' = "none"
    /\ UNCHANGED <<cmdArg, blockedCommands, sandboxVars>>

\* Mutant of LoadBlockedCommands: the blocked set is left as it is.
LoadBlockedCommandsKeeps ==
    /\ cmdOp' = "loadBlockedCommands"
    /\ cmdArg' = <<>>
    /\ cmdRet' = "none"
    /\ cmdList' = NoList
    /\ UNCHANGED <<blockedCommands, sandboxVars>>

LoadBlockedCommands ==
    /\ blockedCommands' = DEFAULT_BLOCKED_COMMANDS
    /\ cmdOp' = "loadBlockedCommands"
    /\ cmdArg' = <<>>
    /\ cmdRet' = "none"
    /\ cmdList' = NoList
    /\ UNCHANGED sandboxVars

\* ---------------------------------------------------------------- runServer
HelpLong == <<"--help">>
HelpShort == <<"-h">>
SetupArg == <<"setup">>

\* process.argv.some(arg => arg === '--allowed-dir' || arg === '-d' ||
\* arg.startsWith('--allowed-dir='))
hasAllowedDir(args) ==
    \E i \in DOMAIN args :
        args[i] = FlagLong \/ args[i] = FlagShort \/ startsWith(args[i], FlagEq)

\* runServer up to its first await: help and setup leave, a command line
\* without a directory flag is refused, and otherwise loadBlockedCommands is
\* called, which installs the built-in blocked commands.
RunServer ==
    /\ serverPc = "starting"
    /\ IF includes(argv, HelpLong) \/ includes(argv, HelpShort)
         THEN serverPc' = "help" /\ UNCHANGED cmdVars
       ELSE IF Len(argv) >= 1 /\ argv[1] = SetupArg
         THEN serverPc' = "setup" /\ UNCHANGED cmdVars
       ELSE IF ~hasAllowedDir(argv)
         THEN serverPc' = "refused" /\ UNCHANGED cmdVars
       ELSE /\ serverPc' = "loading"
            /\ blockedCommands' = DEFAULT_BLOCKED_COMMANDS
            /\ cmdOp' = "loadBlockedCommands"
            /\ cmdArg' = <<>>
            /\ cmdRet' = "none"
            /\ cmdList' = NoList
    /\ UNCHANGED <<fileOp, envVars, loadVars, callVars>>

\* server.connect(transport): from here on requests are served.
ServerConnect ==
    /\ serverPc = "loading"
    /\ serverPc' = "connected"
    /\ UNCHANGED <<fileOp, cmdVars, envVars, loadVars, callVars>>

\* A request for validatePath, served by the connected server.
ServedValidateCall == serverPc = "connected" /\ ValidateCall(ProbePaths)

\* ---------------------------------------------------------- specifications
\* The sandbox of a server started without directory flags, over a
\* configuration file that stays as it is.
Init == InitWith({<<>>})

Next ==
    \/ ValidateCall(RequestedPaths)
    \/ StatDone
    \/ RealpathDone
    \/ WalkDone
    \/ TimerFire
    \/ Return
    \/ ReloadCall
    \/ ConfigReadDone

Spec == Init /\ [][Next]_vars

\* Loading under every argument vector and a configuration file that
\* changes, with a few paths validated.
InitLoad == InitWith(ArgvSet)

NextLoad ==
    \/ ValidateCall(ProbePaths)
    \/ StatDone
    \/ RealpathDone
    \/ WalkDone
    \/ TimerFire
    \/ Return
    \/ ReloadCall
    \/ ConfigReadDone
    \/ ConfigChange

SpecLoad == InitLoad /\ [][NextLoad]_vars

\* The command gate alone.
InitCmd == InitWith({<<>>}) /\ configFile = ConfigUnreadable /\ fs = FsPlain

NextCmd ==
    \/ ValidateCommand
    \/ BlockCommand
    \/ UnblockCommand
    \/ LoadBlockedCommands
    \/ ListBlockedCommands

SpecCmd == InitCmd /\ [][NextCmd]_vars

\* A server started with one directory flag, the directory /h written in
\* several ways, and calls for paths in and around it.
EntrySpellings ==
    {<<"/", "h">>, <<"/", "H">>, <<"/", "h", "/">>, <<"/", ".", "/", "h">>,
     <<"/", "/", "h">>}
SpellingArgvs == {<<FlagShort, e>> : e \in EntrySpellings}
SpellingPaths ==
    {<<"/", "h">>, <<"/", "h", "/", "c">>, <<"/", "H", "/", "c">>,
     <<"/", "h", "c">>, <<"/", "h", "/", "c", "/", "c">>, <<"/", "x">>, <<"L">>}

InitSpelling == InitWith(SpellingArgvs)

NextSpelling ==
    \/ ValidateCall(SpellingPaths)
    \/ StatDone
    \/ RealpathDone
    \/ WalkDone
    \/ TimerFire
    \/ Return

SpecSpelling == InitSpelling /\ [][NextSpelling]_vars

\* The start of the server under every command line, and what it serves.
StartupArgs == ArgSet \cup {FlagEq, HelpLong, SetupArg}
StartupArgvs == UNION {[1..k -> StartupArgs] : k \in 0..MaxArgs}

InitStartup == InitState(StartupArgvs) /\ cmdArg = <<>> /\ serverPc = "starting"

NextStartup ==
    \/ RunServer
    \/ ServerConnect
    \/ ConfigReadDone
    \/ ServedValidateCall
    \/ StatDone
    \/ RealpathDone
    \/ WalkDone
    \/ TimerFire
    \/ Return

SpecStartup == InitStartup /\ [][NextStartup]_vars

\* The file operations that change the filesystem.
NextFile ==
    \/ FileOpCall
    \/ FileOpContinue
    \/ StatDone
    \/ RealpathDone
    \/ WalkDone
    \/ TimerFire
    \/ Return
    \/ ConfigReadDone

SpecFile == Init /\ [][NextFile]_vars

\* Reads through readMultipleFiles, by a server started with one directory flag.
ReadArgvs == {<<FlagShort, HomeDir>>, <<FlagShort, <<"/", "c", "d">>>>}

InitRead == InitWith(ReadArgvs) /\ configFile = ConfigUnreadable

NextRead ==
    \/ ReadCall
    \/ FileOpContinue
    \/ StatDone
    \/ RealpathDone
    \/ WalkDone
    \/ TimerFire
    \/ Return

SpecRead == InitRead /\ [][NextRead]_vars

\* The decomposition of command lines alone: one call on each line.
InitExtract ==
    /\ InitState({<<>>})
    /\ configFile = ConfigUnreadable
    /\ fs = FsPlain
    /\ cmdArg \in ExtractLines \cup Segments
    /\ serverPc = "none"

NextExtract ==
    \/ ExtractCommands
    \/ ExtractBaseCommand

SpecExtract == InitExtract /\ [][NextExtract]_vars

\* The sandbox with a timer that fires when it is due.
FairSpec == Spec /\ WF_vars(TimerFire)

\* ------------------------------------------------------------------ claims
\* The requested path with the home marker expanded, not yet normalized.
HomeExpanded(p) ==
    LET homeMarked == p = <<"~">> \/ (Len(p) >= 2 /\ p[1] = "~" /\ p[2] = sep)
    IN IF homeMarked THEN HomeDir \o slice(p, 1) ELSE p

\* The absolute path of a requested path as the contract describes it: home
\* expansion, resolution against the working directory, "." and ".."
\* collapsed; and the candidate, which is that path in lower case.
ContractAbsolute(p) == pathResolve(Cwd, HomeExpanded(p))
ContractCandidate(p) == toLowerCase(ContractAbsolute(p))

\* The real path the filesystem gives the requested path itself.
RealPathOfRequested(f, p) ==
    LET e == HomeExpanded(p)
    IN realpath(f, IF isAbsolute(e) THEN e ELSE Cwd \o <<sep>> \o e)

\* The candidate is neither an allowed directory (normalized, lower case) nor
\* below one.
OutsideAll(cand, dirs) ==
    \A i \in 1..Len(dirs) :
        LET d == toLowerCase(pathNormalize(dirs[i]))
        IN /\ cand # d
           /\ ~(/\ Len(cand) > Len(d)
                /\ SubSeq(cand, 1, Len(d)) = d
                /\ cand[Len(d) + 1] = sep)

IsAccessDenied(r) == Len(r) >= 2 /\ SubSeq(r, 1, 2) = AccessDeniedPrefix
IsTimedOut(r) == Len(r) >= 2 /\ SubSeq(r, 1, 2) = TimedOutPrefix
IsError(r) == Len(r) >= 1 /\ r[1] = ErrorMarker
IsResolved(r) == r # Pending /\ r # Rejected /\ r # Null /\ ~IsError(r)

\* A validatePath call starts in this step.
CallStep == opPc = "idle" /\ opPc' # "idle"

\* C1: a call for a path whose candidate is outside every allowed directory
\* returns the access-denied outcome, and that outcome stays what the call
\* returned.
C1_DeniesOutside ==
    [][/\ (CallStep /\ OutsideAll(ContractCandidate(requestedPath'), allowedDirectories))
           => IsAccessDenied(result')
       /\ (IsAccessDenied(result) /\ opPc' # "idle") => result' = result]_vars

\* The sibling /cd of the allowed directory /c is denied.
C1_Witness ==
    /\ opPc = "done"
    /\ requestedPath = <<"/", "c", "d">>
    /\ allowedDirectories = <<Cwd>>
    /\ IsAccessDenied(result)

\* C2: a path validatePath returns as resolved lies inside an allowed directory.
C2_NoSymlinkEscape ==
    IsResolved(result) => ~OutsideAll(toLowerCase(result), allowedDirectories)

\* C3 as stated: a call for a path that exists and is accepted returns, when
\* the operation wins the race, the real path the filesystem gives the
\* requested path.
C3_RealPathOfRequested ==
    (/\ opPc = "done"
     /\ timer = "cleared"
     /\ ~IsAccessDenied(result)
     /\ RealPathOfRequested(fs, requestedPath) # ENOENT)
    => result = RealPathOfRequested(fs, requestedPath)

\* C3, amended: a call for a path inside an allowed directory is accepted,
\* and when its absolute path (".." collapsed before any link is followed)
\* exists and the operation wins the race, it returns the real path of that
\* absolute path.
C3_ExistingGivesRealPath ==
    /\ [][(CallStep /\ ~OutsideAll(ContractCandidate(requestedPath'), allowedDirectories))
            => (opPc' = "stat" /\ result' = Pending)]_vars
    /\ []((/\ opPc = "done"
           /\ timer = "cleared"
           /\ ~IsAccessDenied(result)
           /\ realpath(fs, ContractAbsolute(requestedPath)) # ENOENT)
          => result = realpath(fs, ContractAbsolute(requestedPath)))

\* A link was followed: the result is not the absolute path asked for.
C3_Witness ==
    /\ opPc = "done"
    /\ timer = "cleared"
    /\ requestedPath = <<"L">>
    /\ result = HomeDir
    /\ result = realpath(fs, ContractAbsolute(requestedPath))

C5_NeverHangs ==
    /\ (opPc # "idle") ~> (result # Pending)
    /\ [](/\ (result # Pending)
                => (IsAccessDenied(result) \/ IsTimedOut(result) \/ IsResolved(result))
          /\ (timer = "fired") => (result = TimedOutResult(requestedPath))
          /\ (timer = "cleared") => (result = opResult /\ ~IsTimedOut(result))
          /\ (opPc # "idle" /\ timer = "armed") => (result = Pending))
    /\ [][(result # Pending /\ opPc' # "idle") => result' = result]_vars

\* The timer fired on a call whose stat never settled.
C5_Witness ==
    /\ timer = "fired"
    /\ opPc = "stat"
    /\ result = TimedOutResult(requestedPath)

C7_CwdAlwaysAllowed ==
    \E i \in DOMAIN allowedDirectories : allowedDirectories[i] = Cwd

\* A reload installed a configuration list that does not name the working
\* directory.
C7_Witness ==
    /\ reloadResult # NotReloaded
    /\ loadPc = "idle"
    /\ configFile = ConfigList(<< <<"/", "c", "d">> >>)
    /\ allowedDirectories = << <<"/", "c", "d">>, Cwd >>

\* The explicit list followed by the working directory when it is absent.
ExplicitThenCwd(dirs) ==
    IF \E i \in DOMAIN dirs : dirs[i] = Cwd THEN dirs ELSE dirs \o <<Cwd>>

\* C8: with directory flags, the configuration file is never read, and the
\* allow-list, also the one a reload returns, is the list of the flags
\* followed by the working directory when absent.
C8_ExplicitListWins ==
    LET explicit == parseCommandLineArgs(argv)
    IN explicit # NoDirs
         => /\ loadPc = "idle"
            /\ allowedDirectories = ExplicitThenCwd(explicit)
            /\ reloadResult \in {NotReloaded, ExplicitThenCwd(explicit)}

\* A reload under a flag, over a configuration file that lists another directory.
C8_Witness ==
    /\ reloadResult = << <<"/", "c", "d">>, Cwd >>
    /\ configFile = ConfigList(<< HomeDir >>)

\* C9: a reload that finds neither directory flags nor a configuration list
\* leaves the compiled-in default list.
C9_ReloadFallsBackToDefaults ==
    [][(/\ loadPc = "reload"
        /\ loadPc' = "idle"
        /\ ~(configFile.readable /\ configFile.hasList))
       => allowedDirectories' = DefaultAllowedDirectories]_vars

\* The first whitespace-delimited token of a command line.
RECURSIVE TakeToken(_)
TakeToken(s) ==
    IF s = <<>> \/ Head(s) \in Whitespace THEN <<>>
    ELSE <<Head(s)>> \o TakeToken(Tail(s))

FirstToken(s) == TakeToken(trimStart(s))

\* C10: validateCommand returns false exactly when the first
\* whitespace-delimited token of the command line, in lower case, is blocked.
C10_GateOnFirstToken ==
    cmdOp = "validateCommand"
      => ((cmdRet = "false") <=> (toLowerCase(FirstToken(cmdArg)) \in blockedCommands))

\* C11: the gate looks at the leading token only: two command lines that
\* begin with the same token get the same validateCommand decision, whatever
\* follows the token.
C11_LeadingTokenDecides ==
    (cmdOp = "validateCommand" /\ cmdArg # <<>> /\ Head(cmdArg) \notin Whitespace)
      => \A other \in CommandLines :
           (other # <<>> /\ Head(other) \notin Whitespace
              /\ FirstToken(other) = FirstToken(cmdArg))
             => (validateCommand(blockedCommands, other) <=> (cmdRet = "true"))

\* The name as blockCommand and unblockCommand store it.
NormalizedName(name) == trim(toLowerCase(name))

\* C12: after blockCommand(name) the normalized name is in the blocked set,
\* the call returned true exactly when the name was added by it, and
\* validateCommand refuses every command line whose leading token is that
\* name in any letter case.
C12_BlockedNameIsRefused ==
    cmdOp = "blockCommand"
      => /\ NormalizedName(cmdArg) \in blockedCommands
         /\ \A line \in CommandLines :
              toLowerCase(FirstToken(line)) = NormalizedName(cmdArg)
                => ~validateCommand(blockedCommands, line)

\* C13: unblockCommand removes a present name and returns true, leaves the
\* set alone and returns false for an absent one (so a second unblock
\* returns false); blocking an absent name and unblocking it gives back the
\* blocked set and every validateCommand decision as they were.
C13_UnblockInvertsBlock ==
    \A name \in NameSet :
      LET n == NormalizedName(name)
          u == unblockCommand(blockedCommands, name)
          b == blockCommand(blockedCommands, name)
          bu == unblockCommand(b.blocked, name)
      IN /\ n \in blockedCommands
              => (u.ret /\ u.blocked = blockedCommands \ {n}
                    /\ ~unblockCommand(u.blocked, name).ret)
         /\ n \notin blockedCommands
              => /\ ~u.ret /\ u.blocked = blockedCommands
                 /\ b.ret /\ bu.ret
                 /\ bu.blocked = blockedCommands
                 /\ \A line \in CommandLines :
                      validateCommand(bu.blocked, line)
                        <=> validateCommand(blockedCommands, line)
                 /\ ~unblockCommand(bu.blocked, name).ret

\* unblockCommand has just removed a name that blockCommand had added, and
\* the blocked set is the built-in one again.
C13_Witness ==
    /\ cmdOp = "unblockCommand"
    /\ cmdRet = "true"
    /\ NormalizedName(cmdArg) \notin DEFAULT_BLOCKED_COMMANDS
    /\ blockedCommands = DEFAULT_BLOCKED_COMMANDS

\* The thirteen built-in names.
BuiltInNames ==
    {<<w>> : w \in {"format", "mount", "umount", "mkfs", "fdisk", "dd", "sudo",
                    "su", "passwd", "adduser", "useradd", "usermod", "groupadd"}}

LexBefore(a, b) ==
    LET ua == CodeUnits(a)
        ub == CodeUnits(b)
    IN \E k \in 1..(Len(ub)) :
         /\ k <= Len(ua) + 1
         /\ \A i \in 1..(k - 1) : ua[i] = ub[i]
         /\ (k = Len(ua) + 1 \/ ua[k] < ub[k])

\* C15: listBlockedCommands returns the members of the blocked set, each
\* once, in lexicographic order, and leaves the blocked set as it was.
C15_ListIsSortedSet ==
    [][cmdOp' = "listBlockedCommands"
         => /\ blockedCommands' = blockedCommands
            /\ {cmdList'[i] : i \in DOMAIN cmdList'} = blockedCommands
            /\ Len(cmdList') = Cardinality(blockedCommands)
            /\ \A i, j \in DOMAIN cmdList' :
                 i < j => LexBefore(cmdList'[i], cmdList'[j])]_vars

\* listBlockedCommands has listed a set that blockCommand changed.
C15_Witness ==
    /\ cmdOp = "listBlockedCommands"
    /\ <<"ls">> \in blockedCommands
    /\ Len(cmdList) = 14
    /\ cmdList[6] = <<"ls">>

\* The characters the separators are made of.
SeparatorChars == {";", "&", "|"}

\* The pieces of a line between its separator characters.
RECURSIVE PiecesFrom(_, _)
PiecesFrom(s, cur) ==
    IF s = <<>> THEN {cur}
    ELSE IF Head(s) \in SeparatorChars THEN {cur} \cup PiecesFrom(Tail(s), <<>>)
    ELSE PiecesFrom(Tail(s), Append(cur, Head(s)))

\* The base commands of the pieces that are not blank.
PlainCommands(line) ==
    {toLowerCase(FirstToken(piece)) :
       piece \in {q \in PiecesFrom(line, <<>>) : trim(q) # <<>>}}

Elements(list) == {list[i] : i \in DOMAIN list}

\* C16: for a line of plain segments joined by the separators ; && || | &
\* extractCommands returns exactly the base commands of the segments that
\* are not empty.
C16_SplitsOnSeparators ==
    (cmdOp = "extractCommands" /\ cmdArg \in PlainLines)
      => Elements(cmdList) = PlainCommands(cmdArg)

\* The line "a&&b;": two segments around && and an empty one at the end.
C16_Witness ==
    /\ cmdOp = "extractCommands"
    /\ cmdArg = <<"a", "&", "&", "b", ";">>
    /\ cmdList = << <<"a">>, <<"b">> >>

\* For each character of a line whether it is taken literally: it follows
\* an unescaped backslash, or stands between an unescaped opening quote and
\* the next unescaped occurrence of the same quote character.
RECURSIVE LiteralFrom(_, _, _)
LiteralFrom(s, quote, escaped) ==
    IF s = <<>> THEN <<>>
    ELSE IF escaped THEN <<TRUE>> \o LiteralFrom(Tail(s), quote, FALSE)
    ELSE IF Head(s) = "\\" THEN <<quote # "">> \o LiteralFrom(Tail(s), quote, TRUE)
    ELSE IF quote = "" /\ Head(s) \in {"\"", "'"}
      THEN <<FALSE>> \o LiteralFrom(Tail(s), Head(s), FALSE)
    ELSE IF quote # "" /\ Head(s) = quote
      THEN <<FALSE>> \o LiteralFrom(Tail(s), "", FALSE)
    ELSE <<quote # "">> \o LiteralFrom(Tail(s), quote, FALSE)

Literal(s) == LiteralFrom(s, "", FALSE)

\* The pieces of a line between the separator characters that are not
\* taken literally.
RECURSIVE QuotedPiecesFrom(_, _, _)
QuotedPiecesFrom(s, lit, cur) ==
    IF s = <<>> THEN {cur}
    ELSE IF Head(s) \in SeparatorChars /\ ~Head(lit)
      THEN {cur} \cup QuotedPiecesFrom(Tail(s), Tail(lit), <<>>)
    ELSE QuotedPiecesFrom(Tail(s), Tail(lit), Append(cur, Head(s)))

QuotedCommands(line) ==
    {extractBaseCommand(trim(piece)) :
       piece \in {q \in QuotedPiecesFrom(line, Literal(line), <<>>) : trim(q) # <<>>}}
      \ {Null}

\* No parenthesis of the line stands outside quotes and escapes.
NoOpenSubshell(line) == \A i \in DOMAIN line : line[i] = "(" => Literal(line)[i]

Balance(s, i, k) ==
    Cardinality({m \in i..k : s[m] = "("}) - Cardinality({m \in i..k : s[m] = ")"})

\* The positions that close the parenthesis opened at i.
Closers(s, i) ==
    {j \in (i + 1)..Len(s) :
       Balance(s, i, j) = 0 /\ \A k \in i..(j - 1) : Balance(s, i, k) > 0}

FirstOpen(s) == CHOOSE i \in DOMAIN s : s[i] = "(" /\ \A k \in 1..(i - 1) : s[k] # "("

\* The line has a parenthesis and its first one is closed.
FirstSubshellClosed(s) ==
    (\E i \in DOMAIN s : s[i] = "(") /\ Closers(s, FirstOpen(s)) # {}

\* C18: a subshell is unwrapped: the result for a line whose first ( has
\* its matching ) holds the commands of the text strictly between the two,
\* found by the same extraction at any depth of nesting, and the commands
\* of the line without the subshell, and nothing else.
C18_SubshellUnwrapped ==
    (cmdOp = "extractCommands" /\ cmdArg \in NestLines /\ FirstSubshellClosed(cmdArg))
      => LET i == FirstOpen(cmdArg)
             j == CHOOSE c \in Closers(cmdArg, i) : TRUE
             inside == SubSeq(cmdArg, i + 1, j - 1)
             around == SubSeq(cmdArg, 1, i - 1) \o SubSeq(cmdArg, j + 1, Len(cmdArg))
         IN Elements(cmdList)
              = Elements(extractCommands(inside)) \cup Elements(extractCommands(around))

\* The line (a(B)): a subshell inside a subshell, both commands reported.
C18_Witness ==
    /\ cmdOp = "extractCommands"
    /\ cmdArg = <<"(", "a", "(", "B", ")", ")">>
    /\ Elements(cmdList) = {<<"a">>, <<"b">>}

\* The whitespace-delimited tokens of a string.
RECURSIVE TokensOf(_)
TokensOf(s) ==
    LET t == trimStart(s)
    IN IF t = <<>> THEN <<>>
       ELSE <<TakeToken(t)>> \o TokensOf(slice(t, Len(TakeToken(t))))

\* The token is an assignment KEY=VALUE: word characters, =, and at least
\* one more character.
IsAssignment(token) ==
    \E k \in 2..(Len(token) - 1) :
      /\ token[k] = "="
      /\ \A i \in 1..(k - 1) : IsWordSym(token[i])

RECURSIVE DropAssignments(_)
DropAssignments(tokens) ==
    IF tokens # <<>> /\ IsAssignment(Head(tokens)) THEN DropAssignments(Tail(tokens))
    ELSE tokens

\* The base command of a segment as the contract gives it, Null for none.
BaseCommandOf(segment) ==
    LET rest == DropAssignments(TokensOf(segment))
    IN IF rest = <<>> THEN Null
       ELSE IF Head(rest)[1] \in {"(", "$"} THEN Null
       ELSE toLowerCase(Head(rest))

\* C19: extractBaseCommand drops the leading KEY=VALUE tokens of a segment
\* and returns the first token that remains, in lower case; it returns no
\* command when nothing remains or when that token starts with ( or $.
C19_BaseCommandOfSegment ==
    cmdOp = "extractBaseCommand" => cmdList = <<BaseCommandOf(cmdArg)>>

\* C20: the array extractCommands returns has no element twice and every
\* element is in lower case, whether it comes from a segment, from a
\* subshell or from the catch of a failed call.
C20_UniqueLowercase ==
    cmdOp = "extractCommands"
      => /\ \A i, j \in DOMAIN cmdList : i # j => cmdList[i] # cmdList[j]
         /\ \A i \in DOMAIN cmdList : toLowerCase(cmdList[i]) = cmdList[i]

\* The line (B)(: the command of the subshell, written in upper case, and
\* the element the catch of the failed call returned.
C20_Witness ==
    /\ cmdOp = "extractCommands"
    /\ cmdArg = <<"(", "B", ")", "(">>
    /\ cmdList = << <<"b">>, <<"(">> >>

\* The text the scan of a quote-free line hands to the recursive call at the
\* first parenthesis of the line.
FirstSubshellContent(line) ==
    LET i == FirstOpen(line) - 1
    IN substring(line, i + 1, ParenScan(line, i + 1, 1) - 1)

\* C21: extractCommands terminates without the help of a fault: the
\* recursive call at a parenthesis is on a strictly shorter string, and the
\* call returns an array.
C21_RecursionShrinks ==
    (cmdOp = "extractCommands" /\ cmdArg \in NestLines
       /\ \E k \in DOMAIN cmdArg : cmdArg[k] = "(")
      => /\ Len(FirstSubshellContent(cmdArg)) < Len(cmdArg)
         /\ cmdList # NoList

\* The parentheses of a line that are not taken literally: opening minus
\* closing among the symbols i..k.
LiveBalance(s, i, k) ==
    Cardinality({m \in i..k : s[m] = "(" /\ ~Literal(s)[m]})
      - Cardinality({m \in i..k : s[m] = ")" /\ ~Literal(s)[m]})

LiveClosers(s, i) ==
    {j \in (i + 1)..Len(s) :
       /\ s[j] = ")" /\ ~Literal(s)[j]
       /\ LiveBalance(s, i, j) = 0
       /\ \A k \in i..(j - 1) : LiveBalance(s, i, k) > 0}

LiveOpens(s) == {i \in DOMAIN s : s[i] = "(" /\ ~Literal(s)[i]}

FirstLiveOpen(s) == CHOOSE i \in LiveOpens(s) : \A k \in LiveOpens(s) : i <= k

\* C22: a character after an unescaped backslash is copied and has no
\* other effect: it ends no segment, toggles no quote, and neither opens
\* nor closes a subshell, so that the subshell at the first unescaped ( ends
\* at its unescaped matching ).
C22_EscapedIsCopied ==
    (cmdOp = "extractCommands" /\ cmdArg \in EscapeLines)
      => /\ NoOpenSubshell(cmdArg) => Elements(cmdList) = QuotedCommands(cmdArg)
         /\ (LiveOpens(cmdArg) # {} /\ LiveClosers(cmdArg, FirstLiveOpen(cmdArg)) # {})
              => LET i == FirstLiveOpen(cmdArg)
                     j == CHOOSE c \in LiveClosers(cmdArg, i) : TRUE
                     inside == SubSeq(cmdArg, i + 1, j - 1)
                     around == SubSeq(cmdArg, 1, i - 1)
                                 \o SubSeq(cmdArg, j + 1, Len(cmdArg))
                 IN Elements(cmdList)
                      = Elements(extractCommands(inside))
                          \cup Elements(extractCommands(around))

\* C23: writeFile, createDirectory and moveFile make no mutating filesystem
\* call when validatePath returned a denial or a timeout for one of their
\* paths, and end by reporting that failure; moveFile makes its call only
\* with both paths validated.
C23_ValidateBeforeMutation ==
    /\ (\E i \in DOMAIN fileOp.results :
          IsAccessDenied(fileOp.results[i]) \/ IsTimedOut(fileOp.results[i]))
         => /\ fileOp.calls = {}
            /\ fileOp.pc = "done" => fileOp.outcome = "thrown"
    /\ \A c \in fileOp.calls :
         /\ Len(c.args) = Len(fileOp.paths)
         /\ \A i \in DOMAIN c.args : IsResolved(c.args[i])

\* moveFile has ended without a rename: its source was validated, its
\* destination timed out.
C23_Witness ==
    /\ fileOp.name = "moveFile"
    /\ fileOp.pc = "done"
    /\ IsResolved(fileOp.results[1])
    /\ IsTimedOut(fileOp.results[2])
    /\ fileOp.outcome = "thrown"
    /\ fileOp.calls = {}

\* The allowed entries in their canonical spelling: absolute, without "."
\* segments, doubled or trailing separators, in lower case.
CanonicalEntries(dirs) == [i \in DOMAIN dirs |-> toLowerCase(pathResolve(<<>>, dirs[i]))]

\* C24: the containment decision of a call is the decision for the same
\* path in lower case against the allowed entries in canonical spelling.
C24_SpellingInvariant ==
    (opPc # "idle" /\ result # Pending)
      => (IsAccessDenied(result)
            <=> ~isAllowed(CanonicalEntries(allowedDirectories),
                           toAbsolute(toLowerCase(requestedPath))))

FlagDirectories ==
    LET explicit == parseCommandLineArgs(argv)
    IN IF explicit = NoDirs THEN <<>> ELSE explicit

\* C26: a server that has passed the startup check and connected runs with
\* the directories of its flags followed by the working directory, and with
\* none of the compiled-in default directories.
C26_StartedWithFlagsOnly ==
    (serverPc = "connected" /\ loadPc = "idle")
      => /\ allowedDirectories = ExplicitThenCwd(FlagDirectories)
         /\ \A i \in DOMAIN DefaultAllowedDirectories :
              DefaultAllowedDirectories[i] # Cwd
                => ~includes(allowedDirectories, DefaultAllowedDirectories[i])

\* C27: a validatePath call decides containment once, against the allow-list
\* as it is when the call starts. The step that starts the call denies
\* exactly the paths that list does not contain, no later step of the call
\* turns its outcome into a denial or takes a denial back, and a step that
\* changes the allow-list leaves the call where it is.
C27_SnapshotAtCallStart ==
    [][/\ CallStep
          => (IsAccessDenied(result')
                <=> ~isAllowed(allowedDirectories, toAbsolute(requestedPath')))
       /\ (opPc # "idle" /\ opPc' # "idle")
          => (IsAccessDenied(result') <=> IsAccessDenied(result))
       /\ allowedDirectories' # allowedDirectories
          => UNCHANGED callVars]_vars

\* A call admitted under one allow-list has resolved its path after a reload
\* installed a list that does not contain it.
C27_Witness ==
    /\ opPc = "done"
    /\ IsResolved(result)
    /\ reloadResult # NotReloaded
    /\ ~isAllowed(allowedDirectories, absolute)

\* C28: validatePath is idempotent on its successful results. When the call
\* of readMultipleFiles returned a path, the call readFile makes on that
\* path, under the same allow-list and filesystem, returns the same path
\* unless it times out.
C28_IdempotentOnResolved ==
    (/\ fileOp.name = "readMultipleFiles"
     /\ fileOp.pc = "done"
     /\ IsResolved(fileOp.results[1])
     /\ ~IsTimedOut(fileOp.results[2]))
      => fileOp.results[2] = fileOp.results[1]

\* C29: an unquoted "(" that no ")" follows costs no character: for a line
\* s without parentheses and quotes, extractCommands("(" + s) returns what
\* extractCommands(s) returns.
C29_UnmatchedOpenKeepsRest ==
    (/\ cmdOp = "extractCommands"
     /\ Len(cmdArg) >= 1
     /\ cmdArg[1] = "("
     /\ \A k \in 2..Len(cmdArg) : cmdArg[k] \notin {"(", ")", "\"", "'"})
      => cmdList = extractCommands(Tail(cmdArg))

\* C30: a parenthesis inside quotes does not end a subshell. For a line that
\* opens with a subshell whose text, up to the matching ")" outside quotes,
\* holds a quoted parenthesis, every command extractCommands finds in that
\* text is in the result for the line.
C30_QuotedParenInSubshell ==
    LET closers == LiveClosers(cmdArg, 1)
        close == CHOOSE j \in closers : TRUE
    IN (/\ cmdOp = "extractCommands"
        /\ cmdArg \in SubshellLines
        /\ closers # {}
        /\ \E k \in 2..(close - 1) : cmdArg[k] \in {"(", ")"} /\ Literal(cmdArg)[k])
         => \A c \in Elements(extractCommands(SubSeq(cmdArg, 2, close - 1))) :
               c \in Elements(cmdList)

====
